---- MODULE Spec2Model ----
(***************************************************************************)
(* Model of the SimplyPhaser audio-unit kernel: the event-interleaved      *)
(* render loop of KernelEventProcessor, the SimplyPhaserKernel parameter   *)
(* handling and per-frame rendering, the PhaseShifter and the Biquad       *)
(* all-pass filter it drives.                                              *)
(*                                                                         *)
(* Floating-point values are fixed-point integers in units of 1/ONE.       *)
(* Products are rescaled with \div ONE.  Unsigned frame counters wrap      *)
(* (% UIntRange).                                                          *)
(***************************************************************************)
EXTENDS Integers, Sequences, FiniteSets, TLC

\* ---------------------------------------------------------------- bounds

\* Fixed-point resolution: the real value 1.0 is the integer ONE.
ONE == 64
\* Largest frame count the host asks for in one render call.
MaxFrames == 3
\* Largest number of events in the event list of one render call.
MaxEvents == 2
\* Number of processAndRender calls followed in one behaviour.
MaxBlocks == 1
\* Number of control-thread parameter writes that change the kernel followed
\* in one behaviour.
MaxControlSets == 1
\* Number of frames past the end of the block a runaway render is followed.
MaxOverrun == 1
\* Sample time between the starts of two consecutive blocks.
TimeStride == 8

\* ------------------------------------------------------- program constants

\* AUAudioFrameCount is an unsigned integer type: arithmetic on it wraps.  The
\* checker's integers are 32 bits wide, so the wrap is modelled at 2^16; every
\* frame count of the model is far below it, as every real frame count is far
\* below 2^32.
UIntRange == 2^16
\* os status of a successful pullInput.
noErr == 0
\* Number of bands (and all-pass filters) of a PhaseShifter band table.
NumBands == 6

\* Parameter addresses (FilterParameterAddress enumeration).
FilterParameterAddressRate == "Rate"
FilterParameterAddressDepth == "Depth"
FilterParameterAddressIntensity == "Intensity"
FilterParameterAddressDryMix == "DryMix"
FilterParameterAddressWetMix == "WetMix"
FilterParameterAddressOdd90 == "Odd90"
\* An address that is none of the six.
UnknownAddress == "Unknown"

KnownAddresses ==
  { FilterParameterAddressRate, FilterParameterAddressDepth,
    FilterParameterAddressIntensity, FilterParameterAddressDryMix,
    FilterParameterAddressWetMix, FilterParameterAddressOdd90 }

Addresses == KnownAddresses \cup {UnknownAddress}

\* ------------------------------------------------------------- arithmetic

Max(a, b) == IF a >= b THEN a ELSE b

\* Fixed-point product of two values in units of 1/ONE.
Mul(a, b) == (a * b) \div ONE

\* Conversion of a signed 64-bit difference to AUAudioFrameCount.
ToFrameCount(v) == v % UIntRange

\* --------------------------------------------------------------- Biquad.h

\* Coefficients(): all five coefficients zero.
ZeroCoefficients == [a0 |-> 0, a1 |-> 0, a2 |-> 0, b1 |-> 0, b2 |-> 0]

\* State(): all delayed values zero.
ZeroState == [x_z1 |-> 0, x_z2 |-> 0, y_z1 |-> 0, y_z2 |-> 0]

\* Filter(): default coefficients and state.
NewFilter == [coefficients |-> ZeroCoefficients, state |-> ZeroState]

\* tan(pi * frequency / 44100) in units of 1/1000, for the frequencies the
\* ideal band table takes at modulation -1, -1/2, 0, 1/2 and 1.
TanMilli(frequency) ==
  CASE frequency = 16 -> 1      [] frequency = 412 -> 29
    [] frequency = 808 -> 58    [] frequency = 1204 -> 86
    [] frequency = 1600 -> 114
    [] frequency = 33 -> 2      [] frequency = 849 -> 61
    [] frequency = 1666 -> 119  [] frequency = 2483 -> 179
    [] frequency = 3300 -> 240
    [] frequency = 48 -> 3      [] frequency = 1236 -> 88
    [] frequency = 2424 -> 174  [] frequency = 3612 -> 263
    [] frequency = 4800 -> 356
    [] frequency = 98 -> 7      [] frequency = 2523 -> 182
    [] frequency = 4949 -> 368  [] frequency = 7374 -> 580
    [] frequency = 9800 -> 839
    [] frequency = 160 -> 11    [] frequency = 4120 -> 302
    [] frequency = 8080 -> 649  [] frequency = 12040 -> 1156
    [] frequency = 16000 -> 2175
    [] frequency = 260 -> 19    [] frequency = 5315 -> 398
    [] frequency = 10370 -> 911 [] frequency = 15425 -> 1959
    [] frequency = 20480 -> 8904
    [] OTHER -> (frequency * 1000) \div 14037

\* Coefficients::APF1: 1-pole all-pass coefficients.
APF1(frequency) ==
  LET Alpha(tangent) == ((tangent - ONE) * ONE) \div (tangent + ONE)
      Coefficients(alpha) ==
        [a0 |-> alpha, a1 |-> ONE, a2 |-> 0, b1 |-> alpha, b2 |-> 0]
  IN  Coefficients(Alpha((TanMilli(frequency) * ONE) \div 1000))

\* Transform::Base::forceMinToZero: a value whose magnitude is below the
\* smallest normalised float becomes zero.  The smallest positive fixed-point
\* value is one unit, so FloatMin is one unit here.
forceMinToZero(value) ==
  LET FloatMin == 1
  IN  IF (value > 0 /\ value < FloatMin) \/ (value < 0 /\ value > -FloatMin)
      THEN 0 ELSE value

\* Transform::CanonicalTranspose::transform: the output and the new state.
CanonicalTransposeTransform(input, state, c) ==
  LET Store(output) ==
        [output |-> output,
         state |-> [state EXCEPT
                      !.x_z1 = Mul(c.a1, input) - Mul(c.b1, output) + state.x_z2,
                      !.x_z2 = Mul(c.a2, input) - Mul(c.b2, output)]]
  IN  Store(forceMinToZero(Mul(c.a0, input) + state.x_z1))

\* Transform::CanonicalTranspose::storageComponent.
storageComponent(filter) == filter.state.x_z1

\* Filter::gainValue.
gainValue(filter) == filter.coefficients.a0

\* Filter::transform: the output and the filter with its new state.
FilterTransform(filter, input) ==
  LET Keep(r) == [output |-> r.output, filter |-> [filter EXCEPT !.state = r.state]]
  IN  Keep(CanonicalTransposeTransform(input, filter.state, filter.coefficients))

\* ----------------------------------------------------------- PhaseShifter.h

\* PhaseShifter::ideal: the band table used at run time (Hz).
ideal ==
  << [frequencyMin |-> 16, frequencyMax |-> 1600],
     [frequencyMin |-> 33, frequencyMax |-> 3300],
     [frequencyMin |-> 48, frequencyMax |-> 4800],
     [frequencyMin |-> 98, frequencyMax |-> 9800],
     [frequencyMin |-> 160, frequencyMax |-> 16000],
     [frequencyMin |-> 260, frequencyMax |-> 20480] >>

\* DSP::bipolarModulation: a modulation in [-1, 1] mapped onto [min, max].
bipolarModulation(modulation, minValue, maxValue) ==
  minValue + ((modulation + ONE) * (maxValue - minValue)) \div (2 * ONE)

\* PhaseShifter::updateCoefficients: every filter gets the APF1 coefficients
\* of its band at the given modulation; filter states are kept.
updateCoefficients(filters, modulation) ==
  [i \in 1..Len(filters) |->
     [filters[i] EXCEPT !.coefficients =
        APF1(bipolarModulation(modulation, ideal[i].frequencyMin,
                               ideal[i].frequencyMax))]]

\* PhaseShifter constructor followed by initialize: one default filter per
\* band, sample counter zero, coefficients computed for modulation 0.
NewPhaseShifter(intensity, samplesPerFilterUpdate) ==
  [intensity |-> intensity,
   samplesPerFilterUpdate |-> samplesPerFilterUpdate,
   sampleCounter |-> 0,
   filters |-> updateCoefficients([i \in 1..NumBands |-> NewFilter], 0)]

\* PhaseShifter::setIntensity.
setIntensity(shifter, intensity) == [shifter EXCEPT !.intensity = intensity]

\* The forward walk pairing each filter with the front of the gamma vector.
RECURSIVE WeightedSumFromFront(_, _, _, _)
WeightedSumFromFront(filters, i, gammas, weightedSum) ==
  IF i > Len(filters) THEN weightedSum
  ELSE WeightedSumFromFront(filters, i + 1, Tail(gammas),
                            weightedSum
                              + Mul(Head(gammas), storageComponent(filters[i])))

\* The filters applied from the last of the container to the first.
RECURSIVE SeriesFromBack(_, _, _)
SeriesFromBack(filters, i, output) ==
  IF i > Len(filters) THEN [output |-> output, filters |-> filters]
  ELSE LET At(j) ==
             LET Rest(r) == SeriesFromBack([filters EXCEPT ![j] = r.filter],
                                           i + 1, r.output)
             IN  Rest(FilterTransform(filters[j], output))
       IN  At(Len(filters) + 1 - i)

\* The gamma vector after the reverse walk over the filters: starts as <<1>>,
\* each filter from the last to the first pushes gain * back.
RECURSIVE GammasFrom(_, _, _)
GammasFrom(filters, i, gammas) ==
  IF i = 0 THEN gammas
  ELSE GammasFrom(filters, i - 1,
                  Append(gammas, Mul(gainValue(filters[i]), gammas[Len(gammas)])))

\* The forward walk over the filters: each takes the back of the gamma vector,
\* pops it, and adds gamma * storageComponent to the sum.
RECURSIVE WeightedSumFrom(_, _, _, _)
WeightedSumFrom(filters, i, gammas, weightedSum) ==
  IF i > Len(filters) THEN weightedSum
  ELSE WeightedSumFrom(filters, i + 1, SubSeq(gammas, 1, Len(gammas) - 1),
                       weightedSum
                         + Mul(gammas[Len(gammas)], storageComponent(filters[i])))

\* The filters applied in series in container order: the output of one is the
\* input of the next.  Returns the final output and the updated filters.
RECURSIVE SeriesFrom(_, _, _)
SeriesFrom(filters, i, output) ==
  IF i > Len(filters) THEN [output |-> output, filters |-> filters]
  ELSE LET Rest(r) == SeriesFrom([filters EXCEPT ![i] = r.filter], i + 1, r.output)
       IN  Rest(FilterTransform(filters[i], output))

\* The sizes the local gamma vector of one process call goes through: built
\* with one element, one push per filter, one pop for alpha0, one pop per
\* filter.
GammaSizes(filters) ==
  [k \in 1..(2 * Len(filters) + 2) |->
     IF k <= Len(filters) + 1 THEN k ELSE 2 * Len(filters) + 2 - k]

\* The update test passing only once the counter is beyond the period.
updateDueLate(shifter) ==
  shifter.sampleCounter > shifter.samplesPerFilterUpdate

\* The test at the head of PhaseShifter::process: the coefficients are
\* recomputed when the counter has reached samplesPerFilterUpdate_.
updateDue(shifter) ==
  shifter.sampleCounter >= shifter.samplesPerFilterUpdate

\* PhaseShifter::process: the output sample and the updated shifter, with the
\* values of the locals alpha0 and weightedSum and of the chain head (the
\* initial value of output).
process(shifter, modulation, input) ==
  LET Result(series, update, alpha0, weightedSum, head) ==
        [output |-> series.output,
         updated |-> update,
         alpha0 |-> alpha0,
         weightedSum |-> weightedSum,
         head |-> head,
         shifter |-> [shifter EXCEPT
                        !.filters = series.filters,
                        !.sampleCounter =
                          (IF update THEN 0 ELSE shifter.sampleCounter) + 1]]
      Series(filters0, update, alpha0, weightedSum, head) ==
        Result(SeriesFrom(filters0, 1, head), update, alpha0, weightedSum, head)
      Mixed(filters0, update, alpha0, weightedSum) ==
        Series(filters0, update, alpha0, weightedSum,
               Mul(alpha0, input + Mul(shifter.intensity, weightedSum)))
      Weighted(filters0, update, gammas) ==
        Mixed(filters0, update,
              (ONE * ONE) \div (ONE + Mul(shifter.intensity, gammas[Len(gammas)])),
              WeightedSumFrom(filters0, 1, SubSeq(gammas, 1, Len(gammas) - 1), 0))
      Gammas(filters0, update) ==
        Weighted(filters0, update, GammasFrom(filters0, Len(filters0), <<ONE>>))
      Updated(update) ==
        Gammas(IF update THEN updateCoefficients(shifter.filters, modulation)
               ELSE shifter.filters, update)
  IN  Updated(updateDue(shifter))

\* -------------------------------------------------------------------- LFO

\* Sample rate of the rendering format (Hz).
SampleRates == {44100}

\* LFO::value for the triangle waveform at a phase in [0, 1).
triangle(phase) ==
  IF 2 * phase < ONE THEN 4 * phase - ONE ELSE 3 * ONE - 4 * phase

\* LFO::value: the waveform at the current phase; the phase is not advanced.
lfoValue(lfo) == triangle(lfo.phase)

\* LFO::quadPhaseValue: the waveform a quarter period ahead, wrapped.
lfoQuadPhaseValue(lfo) ==
  LET p == lfo.phase + ONE \div 4
  IN  triangle(IF p >= ONE THEN p - ONE ELSE p)

\* LFO::increment: phase advances by frequency / sampleRate and wraps.
lfoIncrement(lfo) ==
  LET p == lfo.phase + (lfo.frequency * ONE) \div lfo.sampleRate
  IN  [lfo EXCEPT !.phase = IF p >= ONE THEN p - ONE ELSE p]

\* LFO::setFrequency.
lfoSetFrequency(lfo, frequency) == [lfo EXCEPT !.frequency = frequency]

\* LFO(): the oscillator as constructed.
NewLFO == [sampleRate |-> 44100, frequency |-> 1, phase |-> 0]

\* ------------------------------------------------------------------ state

VARIABLES
  pc,              \* position of the render thread: "idle", "render", "frames",
                   \* "segdone", "done" or "crashed"
  bypassed_,       \* KernelEventProcessor::bypassed_
  channelCount,    \* channel count of the rendering format (0: none yet)
  rate_, depth_, intensity_, dryMix_, wetMix_, odd90_,   \* kernel parameters
  lfo_,            \* SimplyPhaserKernel::lfo_
  phaseShifters_,  \* SimplyPhaserKernel::phaseShifters_
  inputs_,         \* KernelEventProcessor::inputs_ ("null" or "in")
  outputs_,        \* KernelEventProcessor::outputs_ ("null", "in" or "out")
  ins_, outs_,     \* per-channel sample pointers [buf, off]
  mDataByteSize,   \* outputs_->mBuffers[channel].mDataByteSize
  mem,             \* sample memory: mem.in and mem.out, per channel
  frameCount, framesRemaining, now, events,   \* locals of render()
  after,           \* what follows the current renderFrames call
  segCount,        \* framesThisSegment of the current renderFrames call
  dIns, dOuts, dFrame, dCount,   \* locals of doRendering()
  timestamp,       \* sample time of the first frame of the next block
  eventList,       \* the event list handed to the current call
  input0,          \* the input samples as pulled for the current call
  pullStatus,      \* what pullInput returned in the current call
  outData,         \* where the host finds the output of the current call:
                   \* "in" when it asked for in-place rendering, else "out"
  status,          \* what processAndRender returned ("none" while running)
  segments,        \* the renderFrames calls of the current call, in order
  dispatched,      \* the events dispatched in the current call, in order
  frameLog,        \* the frames rendered by the kernel in the current call
  gammaSizes,      \* sizes the gamma vector took in the latest process call
  overrun,         \* a sample outside the block's buffers was accessed
  lastCall,        \* the latest call made outside the render thread:
                   \* get/setParameterValue or startProcessing
  blocks, controlSets,  \* call counters
  soloShifter,     \* a PhaseShifter driven on its own, with its latest call
  packageKernel    \* the Kernel of Kernel.hpp, with its latest doRendering

paramVars == <<rate_, depth_, intensity_, dryMix_, wetMix_, odd90_>>
dspVars == <<lfo_, phaseShifters_>>
bufVars == <<inputs_, outputs_, ins_, outs_, mDataByteSize, mem>>
loopVars == <<frameCount, framesRemaining, now, events, after, segCount>>
frameVars == <<dIns, dOuts, dFrame, dCount>>
callVars == <<timestamp, eventList, input0, pullStatus, outData, status>>
logVars == <<segments, dispatched, frameLog, gammaSizes, overrun>>
countVars == <<blocks, controlSets>>
unitVars == <<soloShifter, packageKernel>>

vars == <<pc, bypassed_, channelCount, paramVars, dspVars, bufVars, loopVars,
          frameVars, callVars, logVars, lastCall, countVars, unitVars>>

\* ------------------------------------------------------------------ inputs

\* Rendering formats the host sets: channel count and samples per filter
\* update.
Formats ==
  { [channels |-> 1, samplesPerFilterUpdate |-> 2],
    [channels |-> 2, samplesPerFilterUpdate |-> 1] }
\* Status values pullInput returns: noErr and an error.
PullStatuses == {noErr, -50}
\* What a read outside the block's buffers may find.
GarbageSamples == {0, ONE}
\* Content of an output sample the engine has not written.
Untouched == -1000 * ONE

\* The parameter writes the control thread makes (address, external value).
\* A rate of a quarter of the sample rate makes the LFO phase move within the
\* few frames of a block.
ControlWrites ==
  { [address |-> FilterParameterAddressRate, value |-> 11025],
    [address |-> FilterParameterAddressIntensity, value |-> 0],
    [address |-> FilterParameterAddressOdd90, value |-> 1],
    [address |-> UnknownAddress, value |-> 100] }

\* The parameter writes the control thread makes while a render call runs.
RaceWrites ==
  { [address |-> FilterParameterAddressDepth, value |-> 50],
    [address |-> FilterParameterAddressDryMix, value |-> 50] }

\* Values the uninitialised parameter members hold after construction.
InitialParameters ==
  { [rate_ |-> 0, depth_ |-> 0, intensity_ |-> ONE, dryMix_ |-> 0,
     wetMix_ |-> ONE, odd90_ |-> FALSE],
    [rate_ |-> 0, depth_ |-> ONE, intensity_ |-> ONE, dryMix_ |-> ONE,
     wetMix_ |-> 0, odd90_ |-> FALSE] }

\* What an event of the list can be, apart from its sample time.
EventPayloads ==
  { [eventType |-> "Parameter", parameterAddress |-> FilterParameterAddressDepth,
     value |-> 100],
    [eventType |-> "ParameterRamp", parameterAddress |-> FilterParameterAddressWetMix,
     value |-> 0],
    [eventType |-> "MIDI", parameterAddress |-> UnknownAddress, value |-> 0] }

\* Sample times of events relative to the block start: before the block,
\* inside it, at its end and beyond its end.
RelTimes(n) == (-1)..(n + 1)

MakeEvent(time, payload) ==
  [eventSampleTime |-> time, eventType |-> payload.eventType,
   parameterAddress |-> payload.parameterAddress, value |-> payload.value]

\* Event lists of at most MaxEvents events, sorted by sample time, with sample
\* times relative to the start of a block of n frames.
RelativeEventLists ==
  [n \in 1..MaxFrames |->
     LET Ev == { MakeEvent(t, p) : t \in RelTimes(n), p \in EventPayloads }
         ListsOf(k) == { l \in [1..k -> Ev] :
                           \A i \in 1..(k - 1) :
                             l[i].eventSampleTime <= l[i + 1].eventSampleTime }
     IN  UNION { ListsOf(k) : k \in 0..MaxEvents }]

\* A relative event list as the host hands it over for a block starting at
\* sample time start.
AtTime(list, start) ==
  [i \in 1..Len(list) |-> [list[i] EXCEPT !.eventSampleTime = start + @]]

\* The input samples pullInput delivers: values that differ from frame to
\* frame and from channel to channel.
InputBlock(channels, n) ==
  [c \in 1..channels |->
     [f \in 1..n |-> (((2 * c + 3 * f) % 5) - 2) * (ONE \div 2)]]

\* ------------------------------------------------------ SimplyPhaserKernel.h

\* The kernel's parameters, oscillator and phase shifters as one record.
Kernel ==
  [rate_ |-> rate_, depth_ |-> depth_, intensity_ |-> intensity_,
   dryMix_ |-> dryMix_, wetMix_ |-> wetMix_, odd90_ |-> odd90_,
   lfo_ |-> lfo_, phaseShifters_ |-> phaseShifters_]

\* value / 100.0: an external percentage as an internal fraction.
FromPercent(value) == (value * ONE) \div 100

\* x * 100.0: an internal fraction as an external percentage.
ToPercent(x) == (x * 100) \div ONE

\* SimplyPhaserKernel::intensityChanged.
intensityChanged(k) ==
  [k EXCEPT !.phaseShifters_ =
     [i \in 1..Len(k.phaseShifters_) |->
        setIntensity(k.phaseShifters_[i], k.intensity_)]]

\* setParameterValue with every other address falling into the last case.
setParameterValueFallThrough(k, address, value) ==
  CASE address = FilterParameterAddressRate ->
         IF value = k.rate_ THEN k
         ELSE [k EXCEPT !.rate_ = value, !.lfo_ = lfoSetFrequency(k.lfo_, value)]
    [] address = FilterParameterAddressDepth ->
         IF FromPercent(value) = k.depth_ THEN k
         ELSE [k EXCEPT !.depth_ = FromPercent(value)]
    [] address = FilterParameterAddressIntensity ->
         IF FromPercent(value) = k.intensity_ THEN k
         ELSE intensityChanged([k EXCEPT !.intensity_ = FromPercent(value)])
    [] address = FilterParameterAddressDryMix ->
         IF FromPercent(value) = k.dryMix_ THEN k
         ELSE [k EXCEPT !.dryMix_ = FromPercent(value)]
    [] address = FilterParameterAddressWetMix ->
         IF FromPercent(value) = k.wetMix_ THEN k
         ELSE [k EXCEPT !.wetMix_ = FromPercent(value)]
    [] OTHER -> [k EXCEPT !.odd90_ = (value > 0)]

\* SimplyPhaserKernel::setParameterValue: the kernel after the call.
setParameterValue(k, address, value) ==
  CASE address = FilterParameterAddressRate ->
         IF value = k.rate_ THEN k
         ELSE [k EXCEPT !.rate_ = value, !.lfo_ = lfoSetFrequency(k.lfo_, value)]
    [] address = FilterParameterAddressDepth ->
         IF FromPercent(value) = k.depth_ THEN k
         ELSE [k EXCEPT !.depth_ = FromPercent(value)]
    [] address = FilterParameterAddressIntensity ->
         IF FromPercent(value) = k.intensity_ THEN k
         ELSE intensityChanged([k EXCEPT !.intensity_ = FromPercent(value)])
    [] address = FilterParameterAddressDryMix ->
         IF FromPercent(value) = k.dryMix_ THEN k
         ELSE [k EXCEPT !.dryMix_ = FromPercent(value)]
    [] address = FilterParameterAddressWetMix ->
         IF FromPercent(value) = k.wetMix_ THEN k
         ELSE [k EXCEPT !.wetMix_ = FromPercent(value)]
    [] address = FilterParameterAddressOdd90 ->
         [k EXCEPT !.odd90_ = (value > 0)]
    [] OTHER -> k

\* SimplyPhaserKernel::getParameterValue.
getParameterValue(k, address) ==
  CASE address = FilterParameterAddressRate -> k.rate_
    [] address = FilterParameterAddressDepth -> ToPercent(k.depth_)
    [] address = FilterParameterAddressIntensity -> ToPercent(k.intensity_)
    [] address = FilterParameterAddressDryMix -> ToPercent(k.dryMix_)
    [] address = FilterParameterAddressWetMix -> ToPercent(k.wetMix_)
    [] address = FilterParameterAddressOdd90 -> IF k.odd90_ THEN 1 ELSE 0
    [] OTHER -> 0

\* SimplyPhaserKernel::doParameterEvent.
doParameterEvent(k, event) ==
  setParameterValue(k, event.parameterAddress, event.value)

\* SimplyPhaserKernel::doMIDIEvent: nothing.
doMIDIEvent(k, event) == k

\* initialize resizing the phase-shifter vector: the shifters of the earlier
\* format are kept.
initializeKeeping(k, channels, samplesPerFilterUpdate) ==
  [k EXCEPT !.phaseShifters_ =
     [i \in 1..channels |->
        IF i <= Len(k.phaseShifters_) THEN k.phaseShifters_[i]
        ELSE NewPhaseShifter(k.intensity_, samplesPerFilterUpdate)]]

\* Kernel::initialize: the phase-shifter vector is cleared and gets one new
\* shifter per channel, with the format's number of samples between
\* coefficient updates (SimplyPhaserKernel::initialize always passes 20).
initialize(k, channels, samplesPerFilterUpdate) ==
  [k EXCEPT !.phaseShifters_ =
     [i \in 1..channels |-> NewPhaseShifter(k.intensity_, samplesPerFilterUpdate)]]

\* The sample a pointer of channel c refers to; a pointer outside the
\* channel's buffer finds the given garbage.
ReadSample(m, ptr, c, garbage) ==
  IF ptr.off < Len(m[ptr.buf][c]) THEN m[ptr.buf][c][ptr.off + 1] ELSE garbage

\* Memory after a store through a pointer of channel c; a store outside the
\* channel's buffer lands outside the modelled memory.
WriteSample(m, ptr, c, sample) ==
  IF ptr.off < Len(m[ptr.buf][c])
  THEN [m EXCEPT ![ptr.buf][c][ptr.off + 1] = sample]
  ELSE m

\* MixSample with the two mix factors exchanged.
MixSampleSwapped(dryMix, wetMix, inputSample, filteredSample) ==
  Mul(wetMix, inputSample) + Mul(dryMix, filteredSample)

\* Wet/dry mix of one sample.
MixSample(dryMix, wetMix, inputSample, filteredSample) ==
  Mul(dryMix, inputSample) + Mul(wetMix, filteredSample)

\* ChannelFrame storing through the output pointer after advancing it.
ChannelFrameWriteAhead(m, k, c, inPtr, outPtr, modulation, garbage) ==
  LET Store(inputSample, r, outputSample) ==
        [mem |-> WriteSample(m, [outPtr EXCEPT !.off = @ + 1], c, outputSample),
         shifter |-> r.shifter,
         read |-> inputSample, filtered |-> r.output, wrote |-> outputSample,
         updated |-> r.updated,
         inPtr |-> [inPtr EXCEPT !.off = @ + 1],
         outPtr |-> [outPtr EXCEPT !.off = @ + 1]]
      Mix(inputSample, r) ==
        Store(inputSample, r,
              MixSample(k.dryMix_, k.wetMix_, inputSample, r.output))
      Filter(inputSample) ==
        Mix(inputSample,
            process(k.phaseShifters_[c], Mul(modulation, k.depth_), inputSample))
  IN  Filter(ReadSample(m, inPtr, c, garbage))

\* Body of the channel loop of doRendering for one channel: the input sample
\* is read and its pointer advanced, the shifter processes it, the mix is
\* stored and the output pointer advanced.
ChannelFrame(m, k, c, inPtr, outPtr, modulation, garbage) ==
  LET Store(inputSample, r, outputSample) ==
        [mem |-> WriteSample(m, outPtr, c, outputSample),
         shifter |-> r.shifter,
         read |-> inputSample, filtered |-> r.output, wrote |-> outputSample,
         updated |-> r.updated,
         inPtr |-> [inPtr EXCEPT !.off = @ + 1],
         outPtr |-> [outPtr EXCEPT !.off = @ + 1]]
      Mix(inputSample, r) ==
        Store(inputSample, r,
              MixSample(k.dryMix_, k.wetMix_, inputSample, r.output))
      Filter(inputSample) ==
        Mix(inputSample,
            process(k.phaseShifters_[c], Mul(modulation, k.depth_), inputSample))
  IN  Filter(ReadSample(m, inPtr, c, garbage))

\* The channel loop of one frame of doRendering, channels in order from c on.
\* Model channel c is the code's channel c - 1, so even c are the odd channels.
RECURSIVE ChannelLoop(_, _, _, _, _, _, _, _, _)
ChannelLoop(m, k, c, inPtrs, outPtrs, evenMod, oddMod, garbage, acc) ==
  IF c > Len(inPtrs)
  THEN [mem |-> m, kernel |-> k, ins |-> inPtrs, outs |-> outPtrs, channels |-> acc]
  ELSE LET modulation == IF (c - 1) % 2 = 1 THEN oddMod ELSE evenMod
           Rest(r) ==
             ChannelLoop(r.mem,
                         [k EXCEPT !.phaseShifters_[c] = r.shifter],
                         c + 1,
                         [inPtrs EXCEPT ![c] = r.inPtr],
                         [outPtrs EXCEPT ![c] = r.outPtr],
                         evenMod, oddMod, garbage,
                         Append(acc, [read |-> r.read, filtered |-> r.filtered,
                                      wrote |-> r.wrote, modulation |-> modulation,
                                      updated |-> r.updated]))
       IN  Rest(ChannelFrame(m, k, c, inPtrs[c], outPtrs[c], modulation, garbage))

\* doRenderingFrame reading the LFO values after advancing the LFO.
doRenderingFrameLate(m, k, inPtrs, outPtrs, garbage) ==
  LET Frame(lfo) ==
        ChannelLoop(m, [k EXCEPT !.lfo_ = lfo], 1, inPtrs, outPtrs,
                    lfoValue(lfo),
                    IF k.odd90_ THEN lfoQuadPhaseValue(lfo) ELSE lfoValue(lfo),
                    garbage, <<>>)
  IN  Frame(lfoIncrement(k.lfo_))

\* One iteration of the frame loop of SimplyPhaserKernel::doRendering.
doRenderingFrame(m, k, inPtrs, outPtrs, garbage) ==
  LET Frame(evenMod) ==
        ChannelLoop(m, [k EXCEPT !.lfo_ = lfoIncrement(k.lfo_)], 1, inPtrs, outPtrs,
                    evenMod,
                    IF k.odd90_ THEN lfoQuadPhaseValue(k.lfo_) ELSE evenMod,
                    garbage, <<>>)
  IN  Frame(lfoValue(k.lfo_))

\* ---------------------------------------------------- KernelEventProcessor.h

NullPointers == <<>>

\* Total number of frames of the renderFrames calls made so far.
RECURSIVE SumCounts(_)
SumCounts(segs) ==
  IF segs = <<>> THEN 0 ELSE segs[1].count + SumCounts(Tail(segs))

\* renderEventsUntil handing over the due events last first.
RECURSIVE renderEventsUntilReversed(_, _, _, _, _, _)
renderEventsUntilReversed(nowT, event, k, log, total, rendered) ==
  IF event # <<>> /\ event[1].eventSampleTime <= nowT
  THEN LET head == event[1]
           entry == [id |-> total - Len(event) + 1,
                     eventSampleTime |-> head.eventSampleTime,
                     rendered |-> rendered]
           rest == renderEventsUntilReversed(nowT, Tail(event), k, log, total,
                                             rendered)
       IN  [events |-> rest.events,
            kernel |-> IF head.eventType = "MIDI"
                       THEN doMIDIEvent(rest.kernel, head)
                       ELSE doParameterEvent(rest.kernel, head),
            log |-> Append(rest.log, entry)]
  ELSE [events |-> event, kernel |-> k, log |-> log]

\* KernelEventProcessor::renderEventsUntil: every event at the head of the
\* list whose sample time is not after nowT is handed to the kernel by kind
\* and skipped.  Returns the rest of the list, the kernel and the dispatch
\* log (position in the call's list, sample time, frames rendered before).
RECURSIVE renderEventsUntil(_, _, _, _, _, _)
renderEventsUntil(nowT, event, k, log, total, rendered) ==
  IF event # <<>> /\ event[1].eventSampleTime <= nowT
  THEN LET head == event[1]
           entry == [id |-> total - Len(event) + 1,
                     eventSampleTime |-> head.eventSampleTime,
                     rendered |-> rendered]
       IN  CASE head.eventType \in {"Parameter", "ParameterRamp"} ->
                  renderEventsUntil(nowT, Tail(event), doParameterEvent(k, head),
                                    Append(log, entry), total, rendered)
             [] head.eventType = "MIDI" ->
                  renderEventsUntil(nowT, Tail(event), doMIDIEvent(k, head),
                                    Append(log, entry), total, rendered)
             [] OTHER ->
                  renderEventsUntil(nowT, Tail(event), k, log, total, rendered)
  ELSE [events |-> event, kernel |-> k, log |-> log]

\* KernelEventProcessor::setBuffers: the pointer vectors are cleared and get
\* one pointer per channel, unless both buffer lists are the ones already set.
setBuffers(b, inputs, outputs, channels) ==
  IF inputs = b.inputs_ /\ b.outputs_ = outputs THEN b
  ELSE [b EXCEPT !.inputs_ = inputs, !.outputs_ = outputs,
                 !.ins_ = [c \in 1..channels |-> [buf |-> inputs, off |-> 0]],
                 !.outs_ = [c \in 1..channels |-> [buf |-> outputs, off |-> 0]]]

\* KernelEventProcessor::clearBuffers.
clearBuffers(b) ==
  [b EXCEPT !.inputs_ = "null", !.outputs_ = "null",
            !.ins_ = NullPointers, !.outs_ = NullPointers]

\* The buffer fields of the event processor as one record.
Buffers == [inputs_ |-> inputs_, outputs_ |-> outputs_, ins_ |-> ins_, outs_ |-> outs_]

\* MemcpyChannel with the source pointer left at the start of the buffer.
MemcpyChannelNoOffset(m, c, count, processedFrameCount) ==
  [m EXCEPT !["out"][c] =
     [f \in 1..Len(m["out"][c]) |->
        IF f - 1 >= processedFrameCount /\ f - 1 < processedFrameCount + count
        THEN m["in"][c][f - processedFrameCount] ELSE m["out"][c][f]]]

\* memcpy of frameCount samples of one channel from the input to the output
\* buffer, both offset by processedFrameCount; samples past the end of the
\* channel's buffer are outside the modelled memory.
MemcpyChannel(m, c, count, processedFrameCount) ==
  [m EXCEPT !["out"][c] =
     [f \in 1..Len(m["out"][c]) |->
        IF f - 1 >= processedFrameCount /\ f - 1 < processedFrameCount + count
        THEN m["in"][c][f] ELSE m["out"][c][f]]]

\* The bypass branch of renderFrames: each channel whose output data is not
\* its input data is copied.
RECURSIVE BypassCopy(_, _, _, _, _)
BypassCopy(m, c, outBuf, count, processedFrameCount) ==
  IF c > Len(m["in"]) THEN m
  ELSE IF outBuf = "in"
       THEN BypassCopy(m, c + 1, outBuf, count, processedFrameCount)
       ELSE BypassCopy(MemcpyChannel(m, c, count, processedFrameCount),
                       c + 1, outBuf, count, processedFrameCount)

\* The pointer set-up of renderFrames before doRendering.
OffsetPointers(ptrs, buf, processedFrameCount) ==
  [c \in 1..Len(ptrs) |-> [buf |-> buf, off |-> processedFrameCount]]

\* FramesThisSegment with the head event's frame counted into the segment.
FramesThisSegmentLate(head, nowT) ==
  ToFrameCount(Max(head.eventSampleTime - nowT, 0) + 1)

\* The number of frames render() processes before the head event: the time
\* from nowT to the event, not less than zero, as a frame count.
FramesThisSegment(head, nowT) ==
  ToFrameCount(Max(head.eventSampleTime - nowT, 0))

\* frameCount - framesRemaining in unsigned arithmetic.
ProcessedFrameCount == (frameCount - framesRemaining) % UIntRange

\* Number of frames of a segment that lie past the end of the block.
Excess(count, processedFrameCount) ==
  Max(processedFrameCount + count - frameCount, 0)

\* ----------------------------------------------------------------- actions
\*
\* A behaviour is followed until its last render call (MaxBlocks) has returned:
\* after that the host only changes the format.

NoCall == [op |-> "none", address |-> UnknownAddress, value |-> 0, result |-> 0]

\* The kernel fields take the values of record k.
SetKernel(k) ==
  /\ rate_' = k.rate_
  /\ depth_' = k.depth_
  /\ intensity_' = k.intensity_
  /\ dryMix_' = k.dryMix_
  /\ wetMix_' = k.wetMix_
  /\ odd90_' = k.odd90_
  /\ lfo_' = k.lfo_
  /\ phaseShifters_' = k.phaseShifters_

\* The buffer fields take the values of record b.
SetBuffers(b) ==
  /\ inputs_' = b.inputs_
  /\ outputs_' = b.outputs_
  /\ ins_' = b.ins_
  /\ outs_' = b.outs_

\* The state after construction.  The parameter members have no initialiser:
\* they hold one of the value sets of InitialParameters.
InitKernel ==
  /\ pc = "idle"
  /\ bypassed_ = FALSE
  /\ channelCount = 0
  /\ \E p \in InitialParameters :
       /\ rate_ = p.rate_ /\ depth_ = p.depth_ /\ intensity_ = p.intensity_
       /\ dryMix_ = p.dryMix_ /\ wetMix_ = p.wetMix_ /\ odd90_ = p.odd90_
  /\ lfo_ = NewLFO
  /\ phaseShifters_ = <<>>
  /\ inputs_ = "null" /\ outputs_ = "null"
  /\ ins_ = NullPointers /\ outs_ = NullPointers
  /\ mDataByteSize = 0
  /\ mem = [in |-> <<>>, out |-> <<>>]
  /\ frameCount = 0 /\ framesRemaining = 0 /\ now = 0 /\ events = <<>>
  /\ after = "return" /\ segCount = 0
  /\ dIns = NullPointers /\ dOuts = NullPointers /\ dFrame = 0 /\ dCount = 0
  /\ timestamp = 0
  /\ eventList = <<>> /\ input0 = <<>> /\ pullStatus = noErr /\ status = noErr
  /\ outData = "out"
  /\ segments = <<>> /\ dispatched = <<>> /\ frameLog = <<>>
  /\ gammaSizes = <<>> /\ overrun = FALSE
  /\ lastCall = NoCall
  /\ blocks = 0 /\ controlSets = 0

\* The audio unit's kernel after construction; no PhaseShifter is driven on
\* its own and the Kernel of Kernel.hpp is not in use.
Init ==
  /\ InitKernel
  /\ soloShifter = <<>>
  /\ packageKernel = <<>>

\* SimplyPhaserKernel::startProcessing on the host's thread, between render
\* calls, before or after any of them: the phase shifters are rebuilt for the
\* format's channel count.
StartProcessing(channels, samplesPerFilterUpdate) ==
  /\ pc = "idle"
  /\ lastCall = NoCall
  /\ channelCount' = channels
  /\ SetKernel(initialize(Kernel, channels, samplesPerFilterUpdate))
  /\ lastCall' = [op |-> "startProcessing", address |-> UnknownAddress,
                  value |-> channels, result |-> samplesPerFilterUpdate]
  /\ UNCHANGED <<pc, bypassed_, bufVars, loopVars, frameVars, callVars, logVars,
                 countVars, unitVars>>

\* KernelEventProcessor::setBypass, called between render calls.
SetBypass(bypass) ==
  /\ pc = "idle"
  /\ blocks < MaxBlocks
  /\ lastCall = NoCall
  /\ bypassed_ # bypass
  /\ bypassed_' = bypass
  /\ UNCHANGED <<pc, channelCount, paramVars, dspVars, bufVars, loopVars,
                 frameVars, callVars, logVars, lastCall, countVars, unitVars>>

\* setParameterValue called by the control thread, at any point of the render
\* thread's progress: nothing orders the two threads.
ControlSet(address, value) ==
  /\ pc # "crashed"
  /\ pc = "idle" => blocks < MaxBlocks
  /\ lastCall = NoCall
  /\ controlSets < MaxControlSets
  /\ controlSets' = IF setParameterValue(Kernel, address, value) = Kernel
                    THEN controlSets ELSE controlSets + 1
  /\ SetKernel(setParameterValue(Kernel, address, value))
  /\ lastCall' = [op |-> "set", address |-> address, value |-> value, result |-> 0]
  /\ UNCHANGED <<pc, bypassed_, channelCount, bufVars, loopVars, frameVars,
                 callVars, logVars, blocks, unitVars>>

\* getParameterValue called by the control thread between render calls.
ControlGet(address) ==
  /\ pc = "idle"
  /\ blocks < MaxBlocks
  /\ lastCall = NoCall
  /\ lastCall' = [op |-> "get", address |-> address, value |-> 0,
                  result |-> getParameterValue(Kernel, address)]
  /\ UNCHANGED <<pc, bypassed_, channelCount, paramVars, dspVars, bufVars,
                 loopVars, frameVars, callVars, logVars, countVars, unitVars>>

\* The call made outside the render thread has returned.
ControlReturn ==
  /\ lastCall # NoCall
  /\ lastCall' = NoCall
  /\ UNCHANGED <<pc, bypassed_, channelCount, paramVars, dspVars, bufVars,
                 loopVars, frameVars, callVars, logVars, countVars, unitVars>>

\* PullFailed taking only positive status values for failures.
PullFailedPositive(pulled) == pulled > noErr

\* Whether processAndRender gives up after pullInput.
PullFailed(pulled) == pulled # noErr

\* KernelEventProcessor::processAndRender up to the call of render: input is
\* pulled; on failure the status is returned; otherwise in-place output takes
\* the input data pointers and the buffers are set.
ProcessAndRender(n, evs, inPlace, pulled) ==
  /\ channelCount > 0
  /\ blocks < MaxBlocks
  /\ blocks' = blocks + 1
  /\ eventList' = evs
  /\ pullStatus' = pulled
  /\ outData' = IF inPlace THEN "in" ELSE "out"
  /\ input0' = InputBlock(channelCount, n)
  /\ mem' = [in |-> InputBlock(channelCount, n),
             out |-> [c \in 1..channelCount |-> [f \in 1..n |-> Untouched]]]
  /\ segments' = <<>> /\ dispatched' = <<>> /\ frameLog' = <<>>
  /\ gammaSizes' = <<>> /\ overrun' = FALSE
  /\ frameCount' = n
  /\ IF PullFailed(pulled)
     THEN /\ pc' = "done"
          /\ status' = pulled
          /\ UNCHANGED <<inputs_, outputs_, ins_, outs_, framesRemaining, now, events>>
     ELSE /\ pc' = "render"
          /\ status' = noErr
          /\ SetBuffers(setBuffers(Buffers, "in", IF inPlace THEN "in" ELSE "out",
                                   channelCount))
          /\ framesRemaining' = n
          /\ now' = timestamp
          /\ events' = evs
  /\ UNCHANGED <<bypassed_, channelCount, paramVars, dspVars, mDataByteSize,
                 after, segCount, frameVars, timestamp, lastCall, controlSets,
                 unitVars>>

\* render() returns and processAndRender clears the buffers and returns noErr.
ReturnFromRender ==
  /\ pc' = "done"
  /\ status' = noErr
  /\ SetBuffers(clearBuffers(Buffers))

\* renderEventsUntil(now, events) at sample time nowT.
DispatchEvents(nowT) ==
  LET Take(r) ==
        /\ events' = r.events
        /\ dispatched' = r.log
        /\ SetKernel(r.kernel)
  IN  Take(renderEventsUntil(nowT, events, Kernel, dispatched, Len(eventList),
                             SumCounts(segments)))

\* renderFrames handing every segment to the kernel, bypassed or not.
BeginSegmentIgnoringBypass(count, processedFrameCount, next) ==
  /\ segments' = Append(segments, [offset |-> processedFrameCount, count |-> count])
  /\ after' = next
  /\ segCount' = count
  /\ ins_' = OffsetPointers(ins_, inputs_, processedFrameCount)
  /\ outs_' = OffsetPointers(outs_, outputs_, processedFrameCount)
  /\ mDataByteSize' = 4 * (processedFrameCount + count)
  /\ dIns' = ins_'
  /\ dOuts' = outs_'
  /\ dFrame' = 0
  /\ dCount' = count
  /\ pc' = "frames"
  /\ UNCHANGED <<mem, overrun>>

\* KernelEventProcessor::renderFrames up to the call of doRendering: bypassed,
\* the samples are copied; otherwise the sample pointers are offset and the
\* kernel's frame loop starts.
BeginSegment(count, processedFrameCount, next) ==
  /\ segments' = Append(segments, [offset |-> processedFrameCount, count |-> count])
  /\ after' = next
  /\ segCount' = count
  /\ IF bypassed_
     THEN /\ mem' = BypassCopy(mem, 1, outputs_, count, processedFrameCount)
          /\ IF outputs_ # "in" /\ Excess(count, processedFrameCount) > 0
             THEN /\ overrun' = TRUE
                  /\ pc' \in IF Excess(count, processedFrameCount) <= MaxOverrun
                             THEN {"segdone", "crashed"} ELSE {"crashed"}
             ELSE /\ overrun' = overrun
                  /\ pc' = "segdone"
          /\ UNCHANGED <<ins_, outs_, mDataByteSize, frameVars>>
     ELSE /\ ins_' = OffsetPointers(ins_, inputs_, processedFrameCount)
          /\ outs_' = OffsetPointers(outs_, outputs_, processedFrameCount)
          /\ mDataByteSize' = 4 * (processedFrameCount + count)
          /\ dIns' = ins_'
          /\ dOuts' = outs_'
          /\ dFrame' = 0
          /\ dCount' = count
          /\ pc' = "frames"
          /\ UNCHANGED <<mem, overrun>>

\* One pass through the head of the while loop of render().
RenderLoop ==
  /\ pc = "render"
  /\ IF framesRemaining = 0
     THEN /\ ReturnFromRender
          /\ UNCHANGED <<paramVars, dspVars, mDataByteSize, mem, loopVars, frameVars,
                         segments, dispatched, overrun>>
     ELSE IF events = <<>>
     THEN /\ BeginSegment(framesRemaining, ProcessedFrameCount, "return")
          /\ UNCHANGED <<paramVars, dspVars, inputs_, outputs_, frameCount,
                         framesRemaining, now, events, dispatched, status>>
     ELSE LET framesThisSegment == FramesThisSegment(events[1], now)
          IN  IF framesThisSegment > 0
              THEN /\ BeginSegment(framesThisSegment, ProcessedFrameCount, "events")
                   /\ UNCHANGED <<paramVars, dspVars, inputs_, outputs_, frameCount,
                                  framesRemaining, now, events, dispatched, status>>
              ELSE /\ DispatchEvents(now)
                   /\ UNCHANGED <<pc, bufVars, frameCount, framesRemaining, now,
                                  after, segCount, frameVars, segments, overrun,
                                  status>>
  /\ UNCHANGED <<bypassed_, channelCount, timestamp, eventList, input0, pullStatus,
                 outData, frameLog, gammaSizes, lastCall, countVars, unitVars>>

\* One frame of the kernel's frame loop.  A frame past the end of the block
\* reads whatever lies behind the input buffer.
RenderFrame ==
  /\ pc = "frames"
  /\ dFrame < dCount
  /\ dIns[1].off < frameCount + MaxOverrun
  /\ \E garbage \in IF dIns[1].off < frameCount THEN {0} ELSE GarbageSamples :
       LET Take(r) ==
             /\ mem' = r.mem
             /\ SetKernel(r.kernel)
             /\ dIns' = r.ins
             /\ dOuts' = r.outs
             /\ frameLog' = Append(frameLog,
                  [index |-> dIns[1].off, depth |-> depth_,
                   intensity |-> intensity_, dryMix |-> dryMix_,
                   wetMix |-> wetMix_, odd90 |-> odd90_,
                   applied |-> Len(dispatched), phase |-> lfo_.phase,
                   channels |-> r.channels])
       IN  Take(doRenderingFrame(mem, Kernel, dIns, dOuts, garbage))
  /\ gammaSizes' = GammaSizes(phaseShifters_[1].filters)
  /\ overrun' = (overrun \/ dIns[1].off >= frameCount)
  /\ dFrame' = dFrame + 1
  /\ pc' = IF dFrame + 1 = dCount THEN "segdone" ELSE "frames"
  /\ UNCHANGED <<bypassed_, channelCount, inputs_, outputs_, ins_, outs_,
                 mDataByteSize, loopVars, dCount, callVars, segments, dispatched,
                 lastCall, countVars, unitVars>>

\* A frame past the end of the block touches memory the process does not own.
RenderFault ==
  /\ pc = "frames"
  /\ dFrame < dCount
  /\ dIns[1].off >= frameCount
  /\ pc' = "crashed"
  /\ overrun' = TRUE
  /\ UNCHANGED <<bypassed_, channelCount, paramVars, dspVars, bufVars, loopVars,
                 frameVars, callVars, segments, dispatched, frameLog, gammaSizes,
                 lastCall, countVars, unitVars>>

\* renderFrames has returned: render() either returns or accounts for the
\* segment and handles the events that are due.
SegmentDone ==
  /\ pc = "segdone"
  /\ IF after = "return"
     THEN /\ ReturnFromRender
          /\ UNCHANGED <<paramVars, dspVars, framesRemaining, now, events, dispatched>>
     ELSE /\ framesRemaining' = (framesRemaining - segCount) % UIntRange
          /\ now' = now + segCount
          /\ DispatchEvents(now + segCount)
          /\ pc' = "render"
          /\ UNCHANGED <<inputs_, outputs_, ins_, outs_, status>>
  /\ UNCHANGED <<bypassed_, channelCount, mDataByteSize, mem, frameCount, after,
                 segCount, frameVars, timestamp, eventList, input0, pullStatus,
                 outData, segments, frameLog, gammaSizes, overrun, lastCall,
                 countVars, unitVars>>

\* The host takes the result of the call; the next block starts later.
Return ==
  /\ pc = "done"
  /\ pc' = "idle"
  /\ timestamp' = timestamp + TimeStride
  /\ mem' = [in |-> <<>>, out |-> <<>>]
  /\ mDataByteSize' = 0
  /\ frameCount' = 0 /\ framesRemaining' = 0 /\ now' = 0 /\ events' = <<>>
  /\ after' = "return" /\ segCount' = 0
  /\ dIns' = NullPointers /\ dOuts' = NullPointers /\ dFrame' = 0 /\ dCount' = 0
  /\ eventList' = <<>> /\ input0' = <<>> /\ pullStatus' = noErr /\ status' = noErr
  /\ outData' = "out"
  /\ segments' = <<>> /\ dispatched' = <<>> /\ frameLog' = <<>>
  /\ gammaSizes' = <<>> /\ overrun' = FALSE
  /\ UNCHANGED <<bypassed_, channelCount, paramVars, dspVars, inputs_, outputs_,
                 ins_, outs_, lastCall, countVars, unitVars>>

Next ==
  \/ \E f \in Formats : StartProcessing(f.channels, f.samplesPerFilterUpdate)
  \/ \E b \in BOOLEAN : SetBypass(b)
  \/ \E w \in ControlWrites : pc = "idle" /\ ControlSet(w.address, w.value)
  \/ \E a \in Addresses : ControlGet(a)
  \/ ControlReturn
  \/ /\ pc = "idle"
     /\ lastCall = NoCall
     /\ \E n \in 1..MaxFrames : \E evs \in RelativeEventLists[n] :
          \E inPlace \in BOOLEAN, pulled \in PullStatuses :
            ProcessAndRender(n, AtTime(evs, timestamp), inPlace, pulled)
  \/ RenderLoop
  \/ RenderFrame
  \/ RenderFault
  \/ SegmentDone
  \/ Return

Spec == Init /\ [][Next]_vars

\* The control thread writes parameters while the render thread is inside a
\* render call: nothing in the kernel orders the two threads.  Event lists
\* hold at most one event here.
NextRace ==
  \/ \E f \in Formats : StartProcessing(f.channels, f.samplesPerFilterUpdate)
  \/ \E w \in RaceWrites : ControlSet(w.address, w.value)
  \/ ControlReturn
  \/ /\ pc = "idle"
     /\ lastCall = NoCall
     /\ \E n \in 1..MaxFrames :
          \E evs \in { l \in RelativeEventLists[n] : Len(l) <= 1 } :
            ProcessAndRender(n, AtTime(evs, timestamp), FALSE, noErr)
  \/ RenderLoop
  \/ RenderFrame
  \/ RenderFault
  \/ SegmentDone
  \/ Return

SpecRace == Init /\ [][NextRace]_vars

\* An address a host would use for a bypass parameter: the kernel's switch has
\* no case for it.
BypassAddress == "Bypass"

\* Event lists of one immediate parameter event that asks for bypass, at
\* frame t of a block of n frames.
BypassEventLists(n) ==
  { << [eventSampleTime |-> t, eventType |-> "Parameter",
        parameterAddress |-> BypassAddress, value |-> 1] >> : t \in 0..(n - 1) }

\* Render calls whose event list asks for bypass inside the block.
NextBypassEvent ==
  \/ \E f \in Formats : StartProcessing(f.channels, f.samplesPerFilterUpdate)
  \/ ControlReturn
  \/ /\ pc = "idle"
     /\ lastCall = NoCall
     /\ \E n \in 1..MaxFrames : \E evs \in BypassEventLists(n) :
          \E inPlace \in BOOLEAN :
            ProcessAndRender(n, AtTime(evs, timestamp), inPlace, noErr)
  \/ RenderLoop
  \/ RenderFrame
  \/ SegmentDone
  \/ Return

SpecBypassEvent == Init /\ [][NextBypassEvent]_vars

\* ------------------------------------------------------------- Kernel.hpp
\*
\* The Kernel of the Kernel package, whose parameters ramp.  Its doRendering
\* is followed by the values it hands to writeSample for each frame.

\* Number of parameter ramps started in one behaviour of the package kernel.
MaxRamps == 2
\* Number of doRendering calls in one behaviour of the package kernel.
MaxRenders == 2

\* A parameter at rest at a value.
NewParameter(value) == [value |-> value, target |-> value, step |-> 0, remaining |-> 0]

\* A value set from the render path with a ramp of duration frames: the
\* parameter moves linearly from its current value to the new one.
parameterSetImmediate(parameter, value, duration) ==
  IF duration = 0 THEN NewParameter(value)
  ELSE [value |-> parameter.value, target |-> value,
        step |-> (value - parameter.value) \div duration, remaining |-> duration]

\* frameValue(): the parameter after the call; the ramp advances by one step
\* and ends at its target.  The value returned is the value field.
frameValue(parameter) ==
  IF parameter.remaining = 0 THEN parameter
  ELSE IF parameter.remaining = 1 THEN NewParameter(parameter.target)
  ELSE [parameter EXCEPT !.value = @ + parameter.step, !.remaining = @ - 1]

\* A parameter after n calls of frameValue.
RECURSIVE frameValueTimes(_, _)
frameValueTimes(parameter, n) ==
  IF n = 0 THEN parameter ELSE frameValueTimes(frameValue(parameter), n - 1)

\* The package kernel after setRenderingFormat: parameters at rest, the LFO
\* running at a quarter of the sample rate.
NewPackageKernel ==
  [depth_ |-> NewParameter(ONE), intensity_ |-> NewParameter(ONE),
   dry_ |-> NewParameter(0), wet_ |-> NewParameter(ONE),
   odd90_ |-> FALSE, lfo_ |-> lfoSetFrequency(NewLFO, 11025)]

\* The frame loops of Kernel::doRendering for frameCount > 1: every frame
\* takes the LFO values, advances the LFO and calls writeSample with the
\* values read before the loop.
RECURSIVE packageFrameLoop(_, _, _, _, _, _, _)
packageFrameLoop(lfo, odd90, count, depth, intensity, wet, dry) ==
  IF count = 0 THEN [lfo_ |-> lfo, frames |-> <<>>]
  ELSE LET Frame(evenModDepth, rest) ==
             [lfo_ |-> rest.lfo_,
              frames |->
                <<[intensity |-> intensity, evenModDepth |-> evenModDepth,
                   oddModDepth |-> IF odd90 THEN Mul(lfoQuadPhaseValue(lfo), depth)
                                   ELSE evenModDepth,
                   wetMix |-> wet, dryMix |-> dry, depth |-> depth,
                   phase |-> lfo.phase]>> \o rest.frames]
       IN  Frame(Mul(lfoValue(lfo), depth),
                 packageFrameLoop(lfoIncrement(lfo), odd90, count - 1,
                                  depth, intensity, wet, dry))

\* Kernel::doRendering: in both branches frameValue() is called once on each
\* of depth, intensity, wet and dry, and the values are used for every frame
\* of the call.  Returns the kernel, the writeSample calls in order and the
\* number of frameValue() calls made on each parameter.
packageDoRendering(k, count) ==
  LET Render(depth, intensity, wet, dry) ==
        LET Done(r) ==
              [kernel |-> [k EXCEPT !.depth_ = depth, !.intensity_ = intensity,
                                    !.wet_ = wet, !.dry_ = dry, !.lfo_ = r.lfo_],
               frames |-> r.frames,
               frameValueCalls |-> 1]
        IN  Done(packageFrameLoop(k.lfo_, k.odd90_, count, depth.value,
                                  intensity.value, wet.value, dry.value))
  IN  Render(frameValue(k.depth_), frameValue(k.intensity_), frameValue(k.wet_),
             frameValue(k.dry_))

\* No doRendering call made yet.
NoRendering == [frameCount |-> 0, before |-> NewPackageKernel, frames |-> <<>>,
                frameValueCalls |-> 0]

\* The ramps the event path starts.
PackageRamps ==
  { [address |-> FilterParameterAddressDepth, value |-> 0, duration |-> 2],
    [address |-> FilterParameterAddressDepth, value |-> 0, duration |-> 4],
    [address |-> FilterParameterAddressWetMix, value |-> 0, duration |-> 4],
    [address |-> FilterParameterAddressDryMix, value |-> ONE, duration |-> 2] }

\* The package kernel after setRenderingFormat; the audio unit's own kernel
\* is not used.
InitPackage ==
  /\ InitKernel
  /\ soloShifter = <<>>
  /\ packageKernel = [kernel |-> NewPackageKernel, call |-> NoRendering,
                      ramps |-> 0, renders |-> 0]

\* doSetImmediateParameterValue(address, value, duration) on the event path.
PackageSetImmediate(address, value, duration) ==
  /\ packageKernel.ramps < MaxRamps
  /\ packageKernel.renders < MaxRenders
  /\ packageKernel' =
       [packageKernel EXCEPT
          !.ramps = @ + 1,
          !.kernel =
            CASE address = FilterParameterAddressDepth ->
                   [@ EXCEPT !.depth_ = parameterSetImmediate(@, value, duration)]
              [] address = FilterParameterAddressWetMix ->
                   [@ EXCEPT !.wet_ = parameterSetImmediate(@, value, duration)]
              [] address = FilterParameterAddressDryMix ->
                   [@ EXCEPT !.dry_ = parameterSetImmediate(@, value, duration)]
              [] OTHER -> @]
  /\ UNCHANGED <<pc, bypassed_, channelCount, paramVars, dspVars, bufVars, loopVars,
                 frameVars, callVars, logVars, lastCall, countVars, soloShifter>>

\* One call of Kernel::doRendering for count frames.
PackageDoRendering(count) ==
  /\ packageKernel.renders < MaxRenders
  /\ LET Take(r) ==
           packageKernel' =
             [packageKernel EXCEPT
                !.renders = @ + 1,
                !.kernel = r.kernel,
                !.call = [frameCount |-> count,
                          before |-> packageKernel.kernel,
                          frames |-> r.frames,
                          frameValueCalls |-> r.frameValueCalls]]
     IN  Take(packageDoRendering(packageKernel.kernel, count))
  /\ UNCHANGED <<pc, bypassed_, channelCount, paramVars, dspVars, bufVars, loopVars,
                 frameVars, callVars, logVars, lastCall, countVars, soloShifter>>

NextPackage ==
  \/ \E r \in PackageRamps : PackageSetImmediate(r.address, r.value, r.duration)
  \/ \E n \in 1..MaxFrames : PackageDoRendering(n)

SpecPackage == InitPackage /\ [][NextPackage]_vars

\* ------------------------------------------------- PhaseShifter on its own

\* Most process calls made on the phase shifter driven on its own.
MaxCalls == 7

\* The periods, intensities, modulations and input samples of those calls.
ShifterPeriods == {1, 2, 3}
ShifterIntensities == {ONE \div 2, ONE}
ShifterModulations == {-ONE, ONE \div 2}
ShifterInputs == {ONE, -(ONE \div 2)}

\* What process returned, before the first call.
NoProcess ==
  [output |-> 0, updated |-> FALSE, alpha0 |-> 0, weightedSum |-> 0, head |-> 0]

\* A phase shifter as constructed and initialised, no call made yet.
InitShifter ==
  /\ InitKernel
  /\ packageKernel = <<>>
  /\ \E period \in ShifterPeriods : \E intensity \in ShifterIntensities :
       soloShifter = [shifter |-> NewPhaseShifter(intensity, period),
                      before |-> NewPhaseShifter(intensity, period),
                      modulation |-> 0, input |-> 0,
                      result |-> NoProcess,
                      calls |-> 0, updates |-> <<>>]

\* One call of PhaseShifter::process; the shifter before the call, the
\* arguments and what the call returned are kept, and the numbers of the calls
\* that recomputed the coefficients.
ShifterProcess(modulation, input) ==
  /\ soloShifter.calls < MaxCalls
  /\ LET Keep(r) ==
           soloShifter' =
             [shifter |-> r.shifter,
              before |-> soloShifter.shifter,
              modulation |-> modulation, input |-> input,
              result |-> [output |-> r.output, updated |-> r.updated,
                          alpha0 |-> r.alpha0, weightedSum |-> r.weightedSum,
                          head |-> r.head],
              calls |-> soloShifter.calls + 1,
              updates |-> IF r.updated
                          THEN Append(soloShifter.updates, soloShifter.calls + 1)
                          ELSE soloShifter.updates]
     IN  Keep(process(soloShifter.shifter, modulation, input))
  /\ UNCHANGED <<pc, bypassed_, channelCount, paramVars, dspVars, bufVars, loopVars,
                 frameVars, callVars, logVars, lastCall, countVars, packageKernel>>

NextShifter ==
  \E modulation \in ShifterModulations : \E input \in ShifterInputs :
    ShifterProcess(modulation, input)

SpecShifter == InitShifter /\ [][NextShifter]_vars

\* ---------------------------------------------------------------- properties

\* The sample time of an event of the current call relative to its start.
RelativeTime(event) == event.eventSampleTime - timestamp

\* Whether a relative sample time lies inside the block of the current call.
InBlock(T) == T >= 0 /\ T < frameCount

\* The channels of the current call.
Channels == 1..channelCount

\* C1: in every render call the sub-blocks handed to the kernel are
\* contiguous, each starts at offset N - framesRemaining and ends at or before
\* frame N - 1, framesRemaining never underflows, and when the call has
\* returned the sub-blocks cover exactly the N frames of the block.
C1_SegmentsCoverBlock ==
  /\ framesRemaining <= frameCount
  /\ \A i \in 1..Len(segments) :
       /\ segments[i].offset = SumCounts(SubSeq(segments, 1, i - 1))
       /\ segments[i].offset + segments[i].count <= frameCount
  /\ (pc = "done" /\ status = noErr /\ pullStatus = noErr)
       => SumCounts(segments) = frameCount

\* The dispatched events among the first n that set the depth parameter.
DepthEvents(n) ==
  { i \in 1..n :
      /\ eventList[dispatched[i].id].eventType = "Parameter"
      /\ eventList[dispatched[i].id].parameterAddress = FilterParameterAddressDepth }

\* The largest element of a non-empty set of numbers.
Last(S) == CHOOSE x \in S : \A y \in S : y <= x

\* C2: an event with sample time timestamp + T, 0 <= T < N, is handed to the
\* kernel after exactly T frames have been rendered; a frame is rendered with
\* the event applied exactly when its index is at least T; and the depth a
\* frame is rendered with is the value of the last depth event applied before
\* it, frames with the same depth events applied being rendered alike.
C2_EventAppliedAtItsFrame ==
  /\ \A i \in 1..Len(dispatched) :
       InBlock(dispatched[i].eventSampleTime - timestamp)
         => dispatched[i].rendered = dispatched[i].eventSampleTime - timestamp
  /\ \A j \in 1..Len(frameLog) : \A k \in 1..Len(eventList) :
       InBlock(RelativeTime(eventList[k]))
         => ((frameLog[j].index >= RelativeTime(eventList[k]))
               <=> (\E i \in 1..frameLog[j].applied : dispatched[i].id = k))
  /\ \A j \in 1..Len(frameLog) :
       LET due == DepthEvents(frameLog[j].applied)
       IN  /\ due # {}
             => frameLog[j].depth
                  = FromPercent(eventList[dispatched[Last(due)].id].value)
           /\ \A h \in 1..j :
                DepthEvents(frameLog[h].applied) = due
                  => frameLog[h].depth = frameLog[j].depth

\* C2 witness: a call of three frames has returned in which a depth event one
\* frame into the block changed the depth from 0 for frame 0 to 1 for frame 1.
C2_Witness ==
  /\ pc = "done"
  /\ Len(frameLog) = 3
  /\ frameLog[1].depth = 0 /\ frameLog[1].applied = 0
  /\ frameLog[2].depth = ONE /\ frameLog[2].applied = 1
  /\ RelativeTime(eventList[dispatched[1].id]) = 1

\* C3: within one render call the events are handed to the kernel in list
\* order, hence in non-decreasing sample-time order with equal times in list
\* order, and none is handed over twice.
C3_DispatchInListOrder ==
  \A i \in 1..Len(dispatched) : \A j \in 1..Len(dispatched) :
    i < j => /\ dispatched[i].id < dispatched[j].id
             /\ dispatched[i].eventSampleTime <= dispatched[j].eventSampleTime

\* C3 witness: two events with the same sample time inside the block have both
\* been dispatched, after a frame has been rendered.
C3_Witness ==
  /\ Len(dispatched) = 2
  /\ dispatched[1].eventSampleTime = dispatched[2].eventSampleTime
  /\ dispatched[1].rendered > 0
  /\ eventList[1] # eventList[2]

\* C4: when a render call made with bypass enabled has returned, every output
\* sample equals the input sample of the same channel and frame, whether the
\* output buffer is the input buffer or a separate one.
C4_BypassCopiesInput ==
  (pc = "done" /\ bypassed_ /\ status = noErr /\ pullStatus = noErr)
    => \A c \in Channels : \A f \in 1..frameCount :
         mem[outData][c][f] = input0[c][f]

\* C4 witness: a bypassed call into a separate output buffer has returned
\* after copying the block in two sub-blocks around a dispatched event.
C4_Witness ==
  /\ pc = "done" /\ bypassed_ /\ status = noErr /\ pullStatus = noErr
  /\ outData = "out"
  /\ channelCount = 2
  /\ Len(segments) = 2
  /\ Len(dispatched) > 0

\* C5: a frame rendered with wet = 0 and dry = 1 stores, for every channel,
\* the input sample it read, and the output buffer holds the input sample of
\* the same channel and frame.
C5_DryOnlyIsIdentity ==
  \A j \in 1..Len(frameLog) :
    (frameLog[j].wetMix = 0 /\ frameLog[j].dryMix = ONE
       /\ frameLog[j].index < frameCount)
      => \A c \in Channels :
           /\ frameLog[j].channels[c].wrote = frameLog[j].channels[c].read
           /\ mem[outData][c][frameLog[j].index + 1]
                = input0[c][frameLog[j].index + 1]

\* C5 witness: a frame was rendered with wet = 0 and dry = 1 whose filtered
\* sample differs from its input sample, with modulation depth 1.
C5_Witness ==
  \E j \in 1..Len(frameLog) :
    /\ frameLog[j].wetMix = 0 /\ frameLog[j].dryMix = ONE
    /\ frameLog[j].depth = ONE
    /\ frameLog[j].index < frameCount
    /\ frameLog[j].channels[1].filtered # frameLog[j].channels[1].read

\* C6: rendering in place gives what rendering into a separate buffer gives:
\* every in-block frame reads, for every channel, the sample the host put at
\* its index, whether or not output has been stored in the same buffer, and
\* when the call has returned each sample a frame stored is still in the
\* buffer the host reads.
C6_InPlaceReadsInput ==
  /\ \A j \in 1..Len(frameLog) :
       frameLog[j].index < frameCount
         => \A c \in Channels :
              frameLog[j].channels[c].read = input0[c][frameLog[j].index + 1]
  /\ (pc = "done" /\ ~overrun)
       => \A j \in 1..Len(frameLog) : \A c \in Channels :
            mem[outData][c][frameLog[j].index + 1] = frameLog[j].channels[c].wrote

\* C6 witness: an in-place call of three frames has returned whose first
\* frame stored a sample other than the one it read.
C6_Witness ==
  /\ pc = "done"
  /\ outData = "in"
  /\ ~bypassed_
  /\ Len(frameLog) = 3
  /\ frameLog[1].channels[1].wrote # frameLog[1].channels[1].read

\* C7: a processAndRender call whose pullInput fails returns that status at
\* once: no output sample is written, no event dispatched, no sub-block
\* rendered, and the parameters, the LFO and the phase shifters are unchanged.
C7_PullFailureHasNoEffect ==
  [][(pc = "idle" /\ pc' # "idle" /\ pullStatus' # noErr)
       => /\ pc' = "done"
          /\ status' = pullStatus'
          /\ UNCHANGED <<paramVars, dspVars>>
          /\ dispatched' = <<>> /\ segments' = <<>> /\ frameLog' = <<>>
          /\ mem'["in"] = input0'
          /\ \A c \in 1..channelCount : \A f \in 1..frameCount' :
               mem'["out"][c][f] = Untouched]_vars

\* C7 witness: a call with an event due inside the block has returned the
\* failure status of pullInput.
C7_Witness ==
  /\ pc = "done"
  /\ pullStatus # noErr
  /\ status = pullStatus
  /\ Len(eventList) > 0
  /\ InBlock(RelativeTime(eventList[1]))
  /\ ~bypassed_

\* C8: for an address that is none of the six parameters getParameterValue
\* returns 0 and setParameterValue changes no parameter, LFO or phase-shifter
\* state.
C8_UnknownAddressIgnored ==
  [][(lastCall' # lastCall /\ lastCall'.address = UnknownAddress)
       => /\ lastCall'.op = "get" => lastCall'.result = 0
          /\ lastCall'.op = "set" => UNCHANGED <<paramVars, dspVars>>]_vars

\* C8 witness: setParameterValue has been called with an unknown address and
\* a non-zero value on a kernel that has phase shifters and odd90 off.
C8_Witness ==
  /\ lastCall.op = "set"
  /\ lastCall.address = UnknownAddress
  /\ lastCall.value # 0
  /\ phaseShifters_ # <<>>
  /\ ~odd90_

\* C9: all frames of one block between two events of the event list are
\* rendered with the same parameter values, whatever the control thread
\* writes while the block is rendered (frames inside the block only).
C9_NoMidBlockChange ==
  \A j \in 1..(Len(frameLog) - 1) :
    (frameLog[j].applied = frameLog[j + 1].applied
       /\ frameLog[j + 1].index < frameCount)
      => /\ frameLog[j].depth = frameLog[j + 1].depth
         /\ frameLog[j].intensity = frameLog[j + 1].intensity
         /\ frameLog[j].dryMix = frameLog[j + 1].dryMix
         /\ frameLog[j].wetMix = frameLog[j + 1].wetMix
         /\ frameLog[j].odd90 = frameLog[j + 1].odd90

\* Whether a step is taken inside processAndRender: from its entry to its
\* return.
InProcessAndRender ==
  \/ pc \in {"render", "frames", "segdone"}
  \/ pc = "idle" /\ pc' \in {"render", "done"}

\* C10: from the start of processAndRender until it returns no vector of the
\* render path changes its length: the phase-shifter vector and the two
\* channel-pointer vectors keep theirs, and the gamma vector always has its
\* NumBands + 1 elements.
C10_NoVectorResized ==
  [][InProcessAndRender
       => /\ Len(phaseShifters_') = Len(phaseShifters_)
          /\ Len(ins_') = Len(ins_)
          /\ Len(outs_') = Len(outs_)
          /\ \A i \in 1..Len(gammaSizes') : gammaSizes'[i] = NumBands + 1]_vars

\* A phase shifter as a format change leaves it: six filters with zero state,
\* sample counter 0, coefficients of modulation 0.
FreshShifter(shifter) ==
  /\ shifter.sampleCounter = 0
  /\ Len(shifter.filters) = NumBands
  /\ \A i \in 1..NumBands :
       /\ shifter.filters[i].state = ZeroState
       /\ shifter.filters[i].coefficients
            = APF1(bipolarModulation(0, ideal[i].frequencyMin,
                                     ideal[i].frequencyMax))

\* C11: a format change to c channels, after any earlier format and any
\* rendering, leaves exactly c phase shifters, each with zero filter states,
\* sample counter 0 and the coefficients of modulation 0; and no step other
\* than a format change alters the length of the phase-shifter vector.
C11_FormatChangeResetsShifters ==
  [][/\ Len(phaseShifters_') # Len(phaseShifters_)
          => (lastCall' # lastCall /\ lastCall'.op = "startProcessing")
     /\ (lastCall' # lastCall /\ lastCall'.op = "startProcessing")
          => /\ Len(phaseShifters_') = lastCall'.value
             /\ \A c \in 1..Len(phaseShifters_') :
                  FreshShifter(phaseShifters_'[c])]_vars

\* C11 witness: the format was changed to one channel after a render call
\* that rendered frames (the LFO, which a format change leaves alone, has
\* moved).
C11_Witness ==
  /\ lastCall.op = "startProcessing"
  /\ lastCall.value = 1
  /\ blocks = MaxBlocks
  /\ Len(phaseShifters_) = 1
  /\ lfo_.phase # 0

\* C12: a doRendering call of the package kernel for frameCount frames calls
\* frameValue() on each ramped parameter once per frame, so frame i of the
\* call is rendered with the value the parameter has after i + 1 ramp steps.
C12_FrameValueEveryFrame ==
  LET call == packageKernel.call
  IN  call.frameCount > 0
        => /\ call.frameValueCalls = call.frameCount
           /\ \A i \in 1..Len(call.frames) :
                /\ call.frames[i].depth
                     = frameValueTimes(call.before.depth_, i).value
                /\ call.frames[i].intensity
                     = frameValueTimes(call.before.intensity_, i).value
                /\ call.frames[i].wetMix = frameValueTimes(call.before.wet_, i).value
                /\ call.frames[i].dryMix = frameValueTimes(call.before.dry_, i).value

\* The LFO of the kernel at the phase a frame was rendered from.
LfoAt(frame) == [lfo_ EXCEPT !.phase = frame.phase]

\* C13: every rendered frame advances the LFO exactly once, whatever the
\* number of channels; the frame's modulation values are those of the LFO
\* before that advance; every even channel takes the LFO value, and an odd
\* channel takes the quadrature value exactly when odd90 is set, else the
\* LFO value too.
C13_LfoOncePerFrame ==
  \A j \in 1..Len(frameLog) :
    /\ \A c \in 1..Len(frameLog[j].channels) :
         frameLog[j].channels[c].modulation
           = IF (c - 1) % 2 = 1 /\ frameLog[j].odd90
             THEN lfoQuadPhaseValue(LfoAt(frameLog[j]))
             ELSE lfoValue(LfoAt(frameLog[j]))
    /\ (IF j < Len(frameLog) THEN frameLog[j + 1].phase ELSE lfo_.phase)
         = lfoIncrement(LfoAt(frameLog[j])).phase

\* C13 witness: two frames of two channels were rendered with odd90 set, the
\* odd channel modulated differently from the even one.
C13_Witness ==
  /\ Len(frameLog) >= 2
  /\ channelCount = 2
  /\ frameLog[2].odd90
  /\ frameLog[2].channels[2].modulation # frameLog[2].channels[1].modulation

\* C14: when a parameter event that enables bypass has been dispatched at
\* frame T of a block, no frame from T on is processed by the kernel, and
\* when the call has returned the output of frames T..N-1 equals the input.
C14_BypassEventTakesEffect ==
  \A i \in 1..Len(dispatched) :
    LET event == eventList[dispatched[i].id]
        T == RelativeTime(event)
    IN  (event.parameterAddress = BypassAddress /\ event.value = 1 /\ InBlock(T))
          => /\ \A j \in 1..Len(frameLog) : frameLog[j].index < T
             /\ (pc = "done" /\ status = noErr)
                  => \A c \in Channels : \A f \in (T + 1)..frameCount :
                       mem[outData][c][f] = input0[c][f]

\* C15: a render call is always on its way to returning: the loop has made
\* at most one iteration per event of the list plus one, and the call has not
\* run into memory outside the block's buffers, from where it does not return.
C15_RenderReturns ==
  /\ Len(segments) <= Len(eventList) + 1
  /\ Len(dispatched) <= Len(eventList)
  /\ pc # "crashed"

\* The coefficients of the filters of a shifter, in container order.
CoefficientsOf(shifter) ==
  [i \in 1..Len(shifter.filters) |-> shifter.filters[i].coefficients]

\* C16: over the process calls of a phase shifter with period P, the sample
\* counter goes up by one on every call that does not recompute the
\* coefficients and restarts from zero (so is one after the call) exactly on
\* the calls that do, it stays within 0..P, consecutive recomputations are P
\* calls apart, and a call that does not recompute leaves the coefficients
\* as they were.
C16_CounterAndPeriod ==
  LET s == soloShifter
      P == s.shifter.samplesPerFilterUpdate
  IN  /\ s.shifter.sampleCounter \in 0..P
      /\ s.calls > 0 =>
           /\ s.result.updated <=> (s.before.sampleCounter = P)
           /\ s.shifter.sampleCounter =
                IF s.result.updated THEN 1 ELSE s.before.sampleCounter + 1
           /\ ~s.result.updated =>
                CoefficientsOf(s.shifter) = CoefficientsOf(s.before)
      /\ \A k \in 1..(Len(s.updates) - 1) : s.updates[k + 1] - s.updates[k] = P

\* Two recomputations have happened with calls between them that kept the
\* coefficients, and the latest call is one of the recomputing ones.
C16_Witness ==
  /\ soloShifter.shifter.samplesPerFilterUpdate = 3
  /\ Len(soloShifter.updates) = 2
  /\ soloShifter.result.updated
  /\ CoefficientsOf(soloShifter.shifter) # CoefficientsOf(soloShifter.before)

\* The filters a process call works on: those before the call, with the
\* coefficients recomputed when the call recomputes them.
FiltersUsed ==
  IF soloShifter.result.updated
  THEN updateCoefficients(soloShifter.before.filters, soloShifter.modulation)
  ELSE soloShifter.before.filters

\* C17: with a period of one, every process call made so far, the first one
\* after initialisation included, has recomputed the coefficients from its
\* own modulation before filtering.
C17_PeriodOneRecomputesEveryCall ==
  (soloShifter.shifter.samplesPerFilterUpdate = 1 /\ soloShifter.calls > 0)
    => /\ soloShifter.result.updated
       /\ soloShifter.updates = [k \in 1..soloShifter.calls |-> k]
       /\ CoefficientsOf(soloShifter.shifter)
            = CoefficientsOf(updateCoefficients(soloShifter.before.filters,
                                                soloShifter.modulation))

\* The filters of the given indices applied one after the other to a value,
\* each fed the output of the one before: the final output and the filters.
RECURSIVE ChainInOrder(_, _, _)
ChainInOrder(filters, order, value) ==
  IF order = <<>> THEN [output |-> value, filters |-> filters]
  ELSE LET Rest(r) ==
             ChainInOrder([filters EXCEPT ![Head(order)] = r.filter],
                          Tail(order), r.output)
       IN  Rest(FilterTransform(filters[Head(order)], value))

\* The output of the latest process call and the filters it left are those
\* of the chain head going through the filters in the given order.
ChainMatches(order) ==
  LET Same(chain) ==
        /\ soloShifter.result.output = chain.output
        /\ soloShifter.shifter.filters = chain.filters
  IN  Same(ChainInOrder(FiltersUsed, order, soloShifter.result.head))

\* C18 (as the code has it): the chain head goes through the six filters in
\* container order, the first filter of the container first and the last one
\* last, each fed the output of the one before and each transformed once; the
\* output of the last filter is the result.
C18_SeriesInContainerOrder ==
  soloShifter.calls > 0 => ChainMatches(<<1, 2, 3, 4, 5, 6>>)

\* C18 (as stated): the chain head goes through the six filters from the last
\* of the container to the first, the last filter applied first to the chain
\* head and the first filter last, its output being the result.
C18_SeriesLastFilterFirst ==
  soloShifter.calls > 0 => ChainMatches(<<6, 5, 4, 3, 2, 1>>)

\* A call on filters holding state, whose result tells the two orders apart.
C18_Witness ==
  /\ soloShifter.calls > 1
  /\ soloShifter.result.head # 0
  /\ \E i \in 1..NumBands : soloShifter.before.filters[i].state.x_z1 # 0
  /\ ChainMatches(<<1, 2, 3, 4, 5, 6>>)
  /\ ~ChainMatches(<<6, 5, 4, 3, 2, 1>>)

\* gamma[k] of the latest process call: gamma[0] = 1 and gamma[k] the gain of
\* the filter of (zero-based) index 6 - k times gamma[k - 1].
RECURSIVE Gamma(_)
Gamma(k) ==
  IF k = 0 THEN ONE
  ELSE Mul(gainValue(FiltersUsed[NumBands - k + 1]), Gamma(k - 1))

\* The sum over the filters of zero-based index i = 0..upTo of
\* gamma[5 - i] * s[i], s[i] the storage component the filter held before the
\* call.
RECURSIVE FeedbackSum(_)
FeedbackSum(upTo) ==
  IF upTo < 0 THEN 0
  ELSE FeedbackSum(upTo - 1)
         + Mul(Gamma(NumBands - 1 - upTo),
               storageComponent(soloShifter.before.filters[upTo + 1]))

\* C19: in a process call the feedback sum pairs the storage component of
\* filter i with gamma[5 - i], alpha0 is 1 / (1 + intensity * gamma[6]), the
\* chain head is alpha0 * (input + intensity * sum), and the storage
\* components are those held before any filter was transformed in the call.
C19_GammaPairing ==
  soloShifter.calls > 0 =>
    /\ soloShifter.result.weightedSum = FeedbackSum(NumBands - 1)
    /\ soloShifter.result.alpha0 =
         (ONE * ONE) \div (ONE + Mul(soloShifter.before.intensity, Gamma(NumBands)))
    /\ soloShifter.result.head =
         Mul(soloShifter.result.alpha0,
             soloShifter.input
               + Mul(soloShifter.before.intensity, soloShifter.result.weightedSum))

\* A call on filters with different gains and different stored values, its
\* feedback sum not zero, and the transforms of the call having changed the
\* stored values.
C19_Witness ==
  /\ soloShifter.calls > 1
  /\ soloShifter.result.weightedSum # 0
  /\ \E i, j \in 1..NumBands :
       /\ gainValue(FiltersUsed[i]) # gainValue(FiltersUsed[j])
       /\ storageComponent(soloShifter.before.filters[i])
            # storageComponent(soloShifter.before.filters[j])
  /\ \E i \in 1..NumBands :
       storageComponent(soloShifter.shifter.filters[i])
         # storageComponent(soloShifter.before.filters[i])

\* The DSP state of the kernel: the oscillator's phase and, for every phase
\* shifter, its sample counter and its filters (coefficients and states).
DspState ==
  [phase |-> lfo_.phase,
   shifters |-> [c \in 1..Len(phaseShifters_) |->
                   [sampleCounter |-> phaseShifters_[c].sampleCounter,
                    filters |-> phaseShifters_[c].filters]]]

\* C20: no step of a render call made with bypass enabled changes the DSP
\* state, and the parameters are kept as the call returns; in such a call
\* every event inside the block is handed to the kernel after as many frames
\* as its sample time says, and when the call has returned the depth is the
\* value of the last depth event handed over.
C20_BypassedRenderKeepsDspState ==
  /\ [][ (bypassed_ /\ ~(pc = "idle" /\ pc' = "idle"))
           => /\ DspState' = DspState
              /\ pc = "done" => paramVars' = paramVars ]_vars
  /\ [](bypassed_ =>
          /\ frameLog = <<>>
          /\ \A i \in 1..Len(dispatched) :
               InBlock(dispatched[i].eventSampleTime - timestamp)
                 => dispatched[i].rendered = dispatched[i].eventSampleTime - timestamp
          /\ (pc = "done" /\ status = noErr)
               => /\ \A k \in 1..Len(eventList) :
                       InBlock(RelativeTime(eventList[k]))
                         => \E i \in 1..Len(dispatched) : dispatched[i].id = k
                  /\ DepthEvents(Len(dispatched)) # {}
                       => depth_ = FromPercent(
                            eventList[dispatched[Last(DepthEvents(Len(dispatched)))].id].value))

\* A bypassed call of two channels has returned after copying the block in
\* sub-blocks around a depth event and a wet-mix event inside the block, both
\* of which changed the parameter they set.
C20_Witness ==
  /\ pc = "done" /\ bypassed_ /\ status = noErr /\ pullStatus = noErr
  /\ channelCount = 2
  /\ Len(dispatched) = 2
  /\ dispatched[1].rendered >= 1
  /\ dispatched[2].rendered > dispatched[1].rendered
  /\ InBlock(dispatched[2].rendered)
  /\ depth_ = ONE /\ wetMix_ = 0 /\ dryMix_ = 0
  /\ lfo_.phase = 0

====
